---- MODULE Spec2Model ----
(***************************************************************************)
(* Cloud project storage client of the Ctrl-Alt-Code MakeCode editor:      *)
(* the transport layer (db.ts), the save handler (cloudSaveButton.ts) and  *)
(* the importer and sync orchestrator (syncFromCloud.ts).                  *)
(*                                                                         *)
(* The exported functions are async and the host may call one while        *)
(* another is suspended, so several operations can be in progress; each    *)
(* occupies a slot of `ops`.  One step of the model is one promise         *)
(* reaction of one operation: from its call, or from the completion of     *)
(* the wait it is suspended on, up to the next wait or to the end of the   *)
(* async function that runs.  The waits are                                *)
(*     await fetch(...)             the response status arrives            *)
(*     await response.json()        the response body is read and parsed   *)
(*     await pxt.lzmaDecompressAsync(...)                                  *)
(*     await workspace.installAsync(...)                                   *)
(* and the awaits of syncFromCloud and handleCloudSaveWithData on the      *)
(* async functions they call,                                              *)
(*     await db.getUserProjects(...)    await db.getProject(...)           *)
(*     await importCloudProject(...)    await db.saveProject(...)          *)
(* from which the caller resumes in a reaction of its own, after the one   *)
(* in which the function it called ended.                                  *)
(* The host may call setApiBaseUrl between any two steps.                  *)
(***************************************************************************)
EXTENDS Integers, Sequences, FiniteSets, TLC

\* ------------------------------------------------------------------ bounds
\* Entries of the list of a sync run.
MaxProjects == 3

\* Entries of the list of a sync run during which another operation is in
\* progress.
MaxOverlap == 1

Names == {"A", "B"}

\* Operations that can be in progress at once.  The record of what an
\* operation did (requests, notifications, catch clauses, result) is kept
\* for the one in slot Observed; the other runs the same code beside it.
Slots == {"r1", "r2"}
Observed == "r1"

\* ------------------------------------------------------- program constants
DefaultApiBaseUrl == "http://localhost:3001"
OtherApiBaseUrl == "https://store.example"
Urls == {DefaultApiBaseUrl, OtherApiBaseUrl}

CONFIG_NAME == "pxt.json"

TransportOps ==
    {"saveProject", "getUserProjects", "getProject",
     "updateProject", "deleteProject", "checkApiHealth"}

VARIABLES
    API_BASE_URL,    \* db.ts module variable
    headers,         \* local workspace: name -> number of headers of that name
    ops              \* the operations in progress, one record per slot

vars == <<API_BASE_URL, headers, ops>>

\* ------------------------------------------------------------------ values
Pending == [kind |-> "pending"]
Return(v) == [kind |-> "return", val |-> v]
Throw(e) == [kind |-> "throw", err |-> e]

Err(k, m) == [type |-> k, msg |-> m]

NoTransport == [op |-> "none"]
NoImport == [result |-> "none"]

\* ------------------------------------------------------------- db.ts
\* The second argument of `error.error || '<default>'` in each call.
DefaultMessage(op) ==
    CASE op = "saveProject" -> "Failed to save project"
      [] op = "getUserProjects" -> "Failed to fetch projects"
      [] op = "getProject" -> "Failed to fetch project"
      [] op = "updateProject" -> "Failed to update project"
      [] op = "deleteProject" -> "Failed to delete project"
      [] op = "checkApiHealth" -> "API health check failed"

\* What the server can answer.  status: "network" (fetch rejects), "ok"
\* (response.ok) or "notok".  body: how response.json() comes out:
\*   "unparsable"  not JSON, response.json() rejects
\*   "null"        the JSON value null
\*   "noError"     an object without an `error` member
\*   "emptyError"  an object whose `error` is the empty string
\*   "serverMsg"   an object whose `error` is a non-empty message
\*   "notIterable" on the list endpoint, a value other than null whose
\*                 `length` is not 0 and that `for ... of` cannot iterate:
\*                 a number, a boolean, an object without `length: 0`
\*   "result"      any other value.  On the list endpoint these are the
\*                 values syncFromCloud can go through: an array, a string
\*                 (iterated character by character), and an object whose
\*                 `length` is 0, which is never iterated; see Lists.
ServerMessage == "message from server"

Responses ==
    {[status |-> "network", body |-> "unparsable"]}
    \cup [status : {"ok"}, body : {"unparsable", "null", "notIterable", "result"}]
    \cup [status : {"notok"},
          body : {"unparsable", "null", "noError", "emptyError", "serverMsg"}]

NetworkError == Err("NetworkFailure", "Failed to fetch")
JsonSyntaxError == Err("SyntaxError", "Unexpected token")
NullDeref == Err("TypeError", "Cannot read properties of null")
NotIterable == Err("TypeError", "cloudProjects is not iterable")
NoError == Err("none", "")

\* `const error = await response.json(); throw new Error(error.error || dflt)`
ErrorFromBody(op, body) ==
    CASE body = "unparsable" -> JsonSyntaxError
      [] body = "null" -> NullDeref
      [] body = "serverMsg" -> Err("ApiError", ServerMessage)
      [] OTHER -> Err("ApiError", DefaultMessage(op))

\* `await fetch(...)` settles the call by itself when it rejects, and in
\* checkApiHealth also on an unsuccessful status (it throws without reading
\* the body); otherwise the call goes on to `await response.json()`.
SettlesAtStatus(op, status) ==
    \/ status = "network"
    \/ status = "notok" /\ op = "checkApiHealth"

\* Calls that read a member of the parsed result before returning it.
ReadsResult(op) == op \in {"getUserProjects", "getProject"}

\* What reaches the catch clause of the transport call, or its return value.
TransportBody(op, resp) ==
    CASE resp.status = "network" -> Throw(NetworkError)
      [] resp.status = "notok" ->
            IF op = "checkApiHealth"
            THEN Throw(Err("ApiError", DefaultMessage(op)))
            ELSE Throw(ErrorFromBody(op, resp.body))
      [] resp.status = "ok" ->
            CASE resp.body = "unparsable" -> Throw(JsonSyntaxError)
              [] resp.body = "null" ->
                    IF ReadsResult(op) THEN Throw(NullDeref) ELSE Return("null")
              [] resp.body = "notIterable" /\ op = "getUserProjects" ->
                    Return("notIterable")
              [] OTHER -> Return("result")

\* `catch (error) { console.error(...); throw error; }` of every db.ts call.
transportCatch(op, err) == [layer |-> op, rethrown |-> TRUE, err |-> err]

TransportResult(op, resp) ==
    LET b == TransportBody(op, resp)
    IN  IF b.kind = "throw"
        THEN LET c == transportCatch(op, b.err)
             IN  IF c.rethrown THEN Throw(c.err) ELSE Return("undefined")
        ELSE b

TransportCaught(op, resp) ==
    LET b == TransportBody(op, resp)
    IN  IF b.kind = "throw"
        THEN {[layer |-> op, rethrown |-> transportCatch(op, b.err).rethrown]}
        ELSE {}

\* The base URL a request is built from: the module variable, read when the
\* template literal `${API_BASE_URL}/...` is evaluated.
RequestBaseUrl_const == DefaultApiBaseUrl
RequestBaseUrl == API_BASE_URL

Request(op, i) == [kind |-> op, idx |-> i, url |-> RequestBaseUrl]

\* ------------------------------------------------------ syncFromCloud.ts
\* The decompressed JSON document, by the members the importer reads.
\*   source: "absent", "empty" (the string ""), "nonString" (a truthy value
\*           that is no string), "badJson" (a string that is not JSON),
\*           "jsonNull" (the string "null"), "map" (a JSON-encoded file map)
\*   text:   "absent", "null", "nonObject" (a truthy non-object), "map"
\*   cfg:    the entry CONFIG_NAME of the file map: "absent", "empty" (""),
\*           "badJson", "jsonNull" (the string "null"), "valid"
Sources == {"absent", "empty", "nonString", "badJson", "jsonNull", "map"}
Texts == {"absent", "null", "nonObject", "map"}
Cfgs == {"absent", "empty", "badJson", "jsonNull", "valid"}

\* The file map the importer takes: the one in `source` when `source` is a
\* non-empty string, else the one in `text`.
SelectsMap(doc) ==
    \/ doc.source = "map"
    \/ doc.source \in {"absent", "empty", "nonString"} /\ doc.text = "map"

\* The JSON value null: it has no members, and reading one throws.
NullDoc == [source |-> "noObject", text |-> "noObject", cfg |-> "absent"]

\* The documents JSON.parse can return: null, and the values whose members
\* can be read (objects; of a number, a string or a boolean every member
\* the importer reads is absent).  cfg describes the file map taken, if
\* any.
Docs ==
    {d \in [source : Sources, text : Texts, cfg : Cfgs] :
        ~SelectsMap(d) => d.cfg = "absent"}
    \cup {NullDoc}

NoDoc == [source |-> "absent", text |-> "absent", cfg |-> "absent"]
NoData == [projectName |-> "none", format |-> "none"]

\* Outcome of `await pxt.lzmaDecompressAsync(...)` followed by JSON.parse:
\* "lzmaFail" (the promise rejects), "badJson" (JSON.parse throws), "ok".
Decompressions == {"lzmaFail", "badJson", "ok"}

UnknownFormat ==
    Err("InvalidFormat",
        "Invalid project structure: expected 'source' or 'text' property")
MissingConfigFile ==
    Err("InvalidFormat",
        "Invalid project structure: missing '" \o CONFIG_NAME \o "' file")
DecodeError == Err("DecodeError", "invalid base64")
LzmaError == Err("DecompressError", "lzma")
InstallError == Err("InstallationFailure", "install rejected")
RefreshError == Err("HostError", "refreshWorkspace threw")

\* `projectData.source && typeof projectData.source === 'string'`
SourceBranch(doc) == doc.source \in {"badJson", "jsonNull", "map"}

\* `projectData.text && typeof projectData.text === 'object'`
TextBranch(doc) == doc.text = "map"

\* `!text[pxt.CONFIG_NAME]`
MissingConfig(cfg) == cfg \in {"absent", "empty"}

\* The format section of importCloudProject: the chosen file map's
\* configuration entry, or the error thrown.
importFormat(doc) ==
    IF doc = NullDoc THEN Throw(NullDeref)
    ELSE IF SourceBranch(doc)
    THEN CASE doc.source = "badJson" -> Throw(JsonSyntaxError)
           [] doc.source = "jsonNull" -> Throw(NullDeref)
           [] OTHER ->
                IF MissingConfig(doc.cfg) THEN Throw(MissingConfigFile)
                ELSE Return(doc.cfg)
    ELSE IF TextBranch(doc)
    THEN IF MissingConfig(doc.cfg) THEN Throw(MissingConfigFile)
         ELSE Return(doc.cfg)
    ELSE Throw(UnknownFormat)

\* `existingHeaders.find(h => h.name === cloudData.projectName)`
existingProject_none(hdrs, name) == FALSE
existingProject(hdrs, name) == hdrs[name] > 0

\* `JSON.parse(text[pxt.CONFIG_NAME])` and the reads of the result.
parseConfig(cfg) ==
    CASE cfg = "valid" -> Return("config")
      [] cfg = "jsonNull" -> Throw(NullDeref)
      [] OTHER -> Throw(JsonSyntaxError)

\* importCloudProject from the JSON document to the installation request:
\* a thrown error, `return false`, or [kind |-> "install"].
importDecide(name, doc, hdrs) ==
    LET f == importFormat(doc)
    IN  IF f.kind = "throw" THEN f
        ELSE IF existingProject(hdrs, name) THEN Return("false")
        ELSE LET c == parseConfig(f.val)
             IN  IF c.kind = "throw" THEN c ELSE [kind |-> "install"]

\* workspace.installAsync resolving: the store lists the new header.
installAsync(hdrs, name) == [hdrs EXCEPT ![name] = @ + 1]

\* `if (typeof window.refreshWorkspace === 'function') window.refreshWorkspace()`
\* inside the try block of importCloudProject.  The host's callback is
\* "absent", "returns" or "throws".
Refreshes == {"absent", "returns", "throws"}
refreshWorkspace(refresh) ==
    IF refresh = "throws" THEN Throw(RefreshError) ELSE Return("true")

\* `catch (error) { ...; core.errorNotification(...); throw error; }`
importCatch(err) ==
    [layer |-> "importCloudProject", rethrown |-> TRUE, err |-> err]

\* cloudSaveButton.ts, handleCloudSaveWithData: notify, then `throw error`.
saveCatch_swallow(err) ==
    [layer |-> "handleCloudSaveWithData", rethrown |-> FALSE, err |-> err]
saveCatch(err) ==
    [layer |-> "handleCloudSaveWithData", rethrown |-> TRUE, err |-> err]

\* What the loop can get as projectInfo: "null", the JSON value null, or
\* "record", any other value.  Of a project record, and of a number, a
\* string or a character alike, the members the loop reads, `id` and
\* `project_name`, are read without error (they may be undefined, and
\* getProject is then called with undefined).
Entries == {"record", "null"}

\* syncFromCloud, the catch inside the loop:
\* `console.error(`... ${projectInfo.project_name}:`, error)` and go on.
\* The read of project_name throws when the entry is null, and that error
\* leaves the clause.
syncItemCatch(err, projectInfo) ==
    [layer |-> "syncFromCloud.item", rethrown |-> FALSE, err |-> err,
     raised |-> IF projectInfo = "null" THEN NullDeref ELSE NoError]

\* syncFromCloud, the outer catch: notify, no rethrow.
syncTopCatch(err) ==
    [layer |-> "syncFromCloud", rethrown |-> FALSE, err |-> err]

CatchEntry(c) == [layer |-> c.layer, rethrown |-> c.rethrown]

Info(from, msg) == [kind |-> "info", from |-> from, msg |-> msg]
Error(from, msg) == [kind |-> "error", from |-> from, msg |-> msg]

\* The notification after the loop.
FinalNotification(imp, skp) ==
    IF imp > 0
    THEN <<Info("syncFromCloud", "Synced {0} project(s) from cloud")>>
    ELSE IF skp > 0
    THEN <<Info("syncFromCloud",
                "All {0} cloud project(s) already exist locally")>>
    ELSE <<>>

\* The list positions whose fetch the loop starts when it reaches position i
\* of n: `for (...) { await db.getProject(...) ... }` starts one.
FetchesToStart_all(i, n) == [j \in 1..(n - i + 1) |-> i + j - 1]
FetchesToStart(i, n) == <<i>>

Range(s) == {s[j] : j \in DOMAIN s}

ImportFrame(i) == [kind |-> "importCloudProject", idx |-> i, url |-> "none"]

\* ------------------------------------------------------------ state
\* The payload has neither a string `source` nor an object `text`.
NeitherShape(doc) ==
    \/ doc = NullDoc
    \/ /\ doc.source \in {"absent", "nonString"}
       /\ doc.text \in {"absent", "null", "nonObject"}

\* How a parsed payload stands to the format the importer asks for:
\*   "neitherShape"  no string `source` and no object `text`
\*   "lacksConfig"   the file map taken has no entry CONFIG_NAME
\*   "accepted"      the file map taken has a non-empty entry CONFIG_NAME
\*   "other"         e.g. a `source` that is no JSON, an empty entry
Format(doc) ==
    CASE NeitherShape(doc) -> "neitherShape"
      [] SelectsMap(doc) /\ doc.cfg = "absent" -> "lacksConfig"
      [] SelectsMap(doc) /\ doc.cfg # "empty" -> "accepted"
      [] OTHER -> "other"

UpTo(n) == [i \in 1..n |-> i]

\* What syncFromCloud goes through when getUserProjects returned a value
\* it can go through: the entries `for (... of cloudProjects)` yields, in
\* order.  The empty sequence stands for every value whose `length` is 0
\* (the array [], the string "", an object with `length: 0`); a non-empty
\* string yields its characters.
Lists == UNION {[1..n -> Entries] : n \in 0..MaxProjects}

Item(name, outcome) == [name |-> name, outcome |-> outcome]

AnyName == CHOOSE nm \in Names : TRUE

\* An async function that syncFromCloud or handleCloudSaveWithData awaits
\* has ended with `out`; list, name, b64ok: what a successful answer of
\* getUserProjects or getProject carries.
Awaited(of, out, list, name, b64ok) ==
    [of |-> of, out |-> out, list |-> list, name |-> name, b64ok |-> b64ok]
NoAwait == Awaited("none", Pending, <<>>, AnyName, TRUE)

\* A slot no operation occupies.
Blank ==
    [call |-> "none",          \* the exported function the host called
     pc |-> "free",            \* the wait the operation is suspended on
     status |-> "none",        \* response status, once `await fetch` is over
     cloudProjects |-> <<>>,   \* syncFromCloud local: the list
     idx |-> 0,                \* syncFromCloud: 1-based position of the loop
     importedCount |-> 0,      \* syncFromCloud local
     skippedCount |-> 0,       \* syncFromCloud local
     fetchOrder |-> <<>>,      \* positions whose getProject was started
     items |-> <<>>,           \* outcome of each finished loop iteration
     inflight |-> {},          \* async calls started and not yet settled
     runUrls |-> {},           \* base URLs the requests were sent to
     notifications |-> <<>>,   \* core.infoNotification / errorNotification
     installs |-> <<>>,        \* workspace.installAsync requests
     caught |-> {},            \* catch clauses entered
     result |-> Pending,       \* how the operation settled towards its caller
     cloudData |-> NoData,     \* argument of the importCloudProject call
     awaited |-> NoAwait,      \* the ended inner call the caller resumes from
     headers0 |-> [nm \in Names |-> 0],  \* local workspace at the call
     lastTransport |-> NoTransport,  \* host-made db.ts call: input, outcome
     lastImport |-> NoImport]        \* host-made importCloudProject call

TypeOK ==
    /\ API_BASE_URL \in Urls
    /\ headers \in [Names -> Nat]
    /\ DOMAIN ops = Slots
    /\ \A r \in Slots :
          /\ ops[r].call \in {"none", "syncFromCloud", "handleCloudSaveWithData",
                              "importCloudProject"} \cup TransportOps
          /\ ops[r].pc \in {"free", "listing", "fetching", "decompressing",
                            "installing", "saving", "calling", "resuming",
                            "settled"}
          /\ ops[r].status \in {"none", "ok", "notok"}
          /\ ops[r].cloudProjects \in Lists
          /\ ops[r].idx \in 0..(MaxProjects + 1)
          /\ ops[r].importedCount \in 0..MaxProjects
          /\ ops[r].skippedCount \in 0..MaxProjects
          /\ ops[r].runUrls \subseteq Urls
          /\ ops[r].result.kind \in {"pending", "return", "throw"}
          /\ \A i \in DOMAIN ops[r].items :
                /\ ops[r].items[i].name \in Names \cup {"none"}
                /\ ops[r].items[i].outcome \in {"imported", "skipped", "failed"}

\* API_BASE_URL starts as process.env.API_BASE_URL when that is set, else
\* as the default.
Init ==
    /\ API_BASE_URL \in Urls
    /\ headers \in [Names -> {0, 1}]
    /\ ops = [r \in Slots |-> Blank]

Free(r) == ops[r].pc = "free"

\* A call takes a free slot; none is made during a run whose list is longer
\* than MaxOverlap.
CanTake(r) ==
    /\ Free(r)
    /\ \A s \in Slots : /\ Len(ops[s].cloudProjects) <= MaxOverlap
                        /\ Len(ops[s].awaited.list) <= MaxOverlap

\* The result of a settled operation is observed before anything else
\* happens.
NoneSettled == \A r \in Slots : ops[r].pc # "settled"

\* An exported function is called: its frame.
Started(op) ==
    [Blank EXCEPT
        !.call = op,
        !.headers0 = IF op \in {"syncFromCloud", "importCloudProject"}
                     THEN headers ELSE @]

\* The operation after it entered the catch clauses cgt.
WithCaught(o, cgt) == [o EXCEPT !.caught = @ \cup cgt]

\* The operation without the record of what it did and of what it only
\* reports (the counts, the error and the result of an import that ended):
\* what is left is what its code goes on from, and a free slot when it has
\* settled.
Forget(o) ==
    IF o.pc = "settled" THEN Blank
    ELSE [Blank EXCEPT
            !.call = o.call,
            !.pc = o.pc,
            !.status = o.status,
            !.cloudProjects = o.cloudProjects,
            !.idx = o.idx,
            !.cloudData.projectName =
                IF o.pc = "resuming" THEN "none" ELSE o.cloudData.projectName,
            !.awaited =
                IF o.awaited.of = "importCloudProject"
                THEN [o.awaited EXCEPT !.out = Return("false")]
                ELSE IF o.awaited.out.kind = "throw"
                THEN [o.awaited EXCEPT !.out = Throw(NoError)]
                ELSE o.awaited]

Apply(r, o) == ops' = [ops EXCEPT ![r] = IF r = Observed THEN o ELSE Forget(o)]

\* `await fetch(`${API_BASE_URL}...`)`: the request is built and sent.
Send(o, op, i, at) ==
    [o EXCEPT !.pc = at,
              !.inflight = @ \cup {Request(op, i)},
              !.runUrls = @ \cup {RequestBaseUrl}]

\* ------------------------------------------------- syncFromCloud, the loop
\* An error reaches the outer catch of syncFromCloud.
SyncAbort(o, err) ==
    LET c == syncTopCatch(err)
    IN  WithCaught([o EXCEPT !.pc = "settled",
                       !.notifications =
                            Append(@, Error("syncFromCloud",
                                            "Cloud sync failed: {0}")),
                       !.result = IF c.rethrown THEN Throw(c.err)
                                  ELSE Return("undefined")],
             {CatchEntry(c)})

\* An error reaches the catch inside the loop while entry idx is processed;
\* `name` is the projectName of the fetched record, "none" without one.
RECURSIVE LoopNext(_, _)
ItemFailed(o, err, name) ==
    LET c == syncItemCatch(err, o.cloudProjects[o.idx])
    IN  IF c.rethrown
        THEN WithCaught(SyncAbort(o, c.err), {CatchEntry(c)})
        ELSE IF c.raised # NoError
        THEN WithCaught(SyncAbort(o, c.raised), {CatchEntry(c)})
        ELSE WithCaught(LoopNext([o EXCEPT !.items = Append(@, Item(name, "failed"))],
                           o.idx + 1),
                  {CatchEntry(c)})

\* The loop goes on at position i: it starts the fetch of entry i, or
\* leaves the loop and reports.  On a null entry the read of
\* `projectInfo.id` throws before getProject is called.
LoopNext(o, i) ==
    IF i <= Len(o.cloudProjects) /\ o.cloudProjects[i] = "null"
    THEN ItemFailed([o EXCEPT !.idx = i], NullDeref, "none")
    ELSE IF i <= Len(o.cloudProjects)
    THEN LET start == FetchesToStart(i, Len(o.cloudProjects))
         IN  [o EXCEPT !.pc = "fetching",
                       !.idx = i,
                       !.inflight =
                            @ \cup {Request("getProject", j) : j \in Range(start)},
                       !.fetchOrder = @ \o start,
                       !.runUrls = @ \cup {RequestBaseUrl}]
    ELSE [o EXCEPT !.pc = "settled",
                   !.idx = i,
                   !.notifications =
                        @ \o FinalNotification(o.importedCount, o.skippedCount),
                   !.result = Return("undefined")]

\* importCloudProject ends with `out` (what its try block produced); the
\* loop of syncFromCloud that awaits it resumes in a later step.
\* n: installation requests it issued; ok: whether the request succeeded;
\* local: whether the name was local when the call looked, or ended.
ImportSettles(o, out, n, ok, stage, format, local) ==
    LET thrown == out.kind = "throw"
        c == importCatch(IF thrown THEN out.err ELSE NoError)
        final == IF ~thrown THEN out
                 ELSE IF c.rethrown THEN Throw(c.err)
                 ELSE Return("undefined")
        cgt == IF thrown THEN {CatchEntry(c)} ELSE {}
        name == o.cloudData.projectName
        o1 == [o EXCEPT
                 !.inflight = @ \ {ImportFrame(o.idx)},
                 !.notifications =
                    IF thrown
                    THEN Append(@, Error("importCloudProject",
                                         "Failed to import '{0}': {1}"))
                    ELSE @]
    IN  IF o.call = "syncFromCloud"
        THEN WithCaught([o1 EXCEPT
                            !.pc = "resuming",
                            !.awaited = Awaited("importCloudProject", final,
                                                <<>>, AnyName, TRUE)],
                        cgt)
        ELSE WithCaught([o1 EXCEPT
                     !.pc = "settled",
                     !.result = final,
                     !.lastImport =
                        [name |-> name, stage |-> stage, format |-> format,
                         localAtCall |-> o.headers0[name] > 0,
                         localAtCheck |-> local,
                         result |-> IF final.kind = "throw" THEN "throw"
                                    ELSE final.val,
                         err |-> IF final.kind = "throw" THEN final.err
                                 ELSE NoError,
                         installs |-> n, installOk |-> ok]],
                  cgt)

\* importCloudProject from its call to `await pxt.lzmaDecompressAsync(...)`.
\* b64ok: whether base64ToUint8Array accepts the project data.
importDecode(o, b64ok) ==
    IF b64ok
    THEN [o EXCEPT !.pc = "decompressing",
                   !.inflight = @ \cup {ImportFrame(o.idx)}]
    ELSE ImportSettles(o, Throw(DecodeError), 0, FALSE, "badBase64", "none",
                       headers[o.cloudData.projectName] > 0)

\* `await importCloudProject(cloudData)` is over: the loop counts the entry
\* and goes on.
ImportResumed(o, out) ==
    LET name == o.cloudData.projectName
    IN  IF out.kind = "throw" THEN ItemFailed(o, out.err, name)
        ELSE IF out.val = "true"
        THEN LoopNext([o EXCEPT !.importedCount = @ + 1,
                                !.items = Append(@, Item(name, "imported"))],
                      o.idx + 1)
        ELSE LoopNext([o EXCEPT !.skippedCount = @ + 1,
                                !.items = Append(@, Item(name, "skipped"))],
                      o.idx + 1)

\* `await db.getUserProjects(userId)` is over: `cloudProjects.length === 0`
\* is tested first and reported with a notification; otherwise
\* `for (... of cloudProjects)` starts the first fetch, or throws when the
\* value cannot be iterated.
ListSettled(o, out, list) ==
    IF out.kind = "throw" THEN SyncAbort(o, out.err)
    ELSE IF out.val = "notIterable" THEN SyncAbort(o, NotIterable)
    ELSE IF Len(list) = 0
    THEN [o EXCEPT !.pc = "settled",
                   !.notifications =
                        Append(@, Info("syncFromCloud",
                                       "No cloud projects to sync")),
                   !.result = Return("undefined")]
    ELSE LoopNext([o EXCEPT !.cloudProjects = list], 1)

\* `await db.getProject(projectInfo.id, userId)` is over: importCloudProject
\* is called with the projectName of the fetched record.
FetchSettled(o, out, name, b64ok) ==
    IF out.kind = "throw" THEN ItemFailed(o, out.err, "none")
    ELSE importDecode([o EXCEPT !.cloudData.projectName = name], b64ok)

\* `await db.saveProject(...)` is over: handleCloudSaveWithData runs to its
\* end.
SaveSettled(o, out) ==
    LET c == saveCatch(IF out.kind = "throw" THEN out.err ELSE NoError)
    IN  IF out.kind = "throw"
        THEN WithCaught([o EXCEPT !.pc = "settled",
                            !.notifications =
                                Append(@, Error("handleCloudSaveWithData",
                                                "Failed to save '{0}': {1}")),
                            !.result = IF c.rethrown THEN Throw(c.err)
                                       ELSE Return("undefined")],
                  {CatchEntry(c)})
        ELSE [o EXCEPT !.pc = "settled",
                       !.notifications =
                            Append(@, Info("handleCloudSaveWithData",
                                           "Project '{0}' saved to cloud!")),
                       !.result = Return("undefined")]

\* A db.ts call the host made itself is over.
DirectSettled(o, out) == [o EXCEPT !.pc = "settled", !.result = out]

RequestPcs == {"listing", "fetching", "saving", "calling"}

\* The db.ts call an operation is suspended in.
TransportOpOf(o) ==
    CASE o.pc = "listing" -> "getUserProjects"
      [] o.pc = "fetching" -> "getProject"
      [] o.pc = "saving" -> "saveProject"
      [] OTHER -> o.call

\* The db.ts call of operation o ends on response `resp`: a call the host
\* made settles; syncFromCloud and handleCloudSaveWithData resume from
\* their await in a later step.  list, name, b64ok: what a successful
\* answer carries.
TransportSettles(o, resp, list, name, b64ok) ==
    LET op == TransportOpOf(o)
        out == TransportResult(op, resp)
        o1 == [o EXCEPT
                 !.status = "none",
                 !.inflight = {q \in @ : ~(q.kind = op /\ q.idx = o.idx)},
                 !.lastTransport =
                    IF o.call = "syncFromCloud" THEN @
                    ELSE [op |-> op, resp |-> resp, out |-> out]]
    IN  WithCaught(
            IF o.pc = "calling" THEN DirectSettled(o1, out)
            ELSE [o1 EXCEPT !.pc = "resuming",
                            !.awaited = Awaited(op, out, list, name, b64ok)],
            TransportCaught(op, resp))

\* The caller resumes from the await of the inner call that ended.
Resumed(o) ==
    LET w == o.awaited
        o1 == [o EXCEPT !.awaited = NoAwait]
    IN  CASE w.of = "getUserProjects" -> ListSettled(o1, w.out, w.list)
          [] w.of = "getProject" -> FetchSettled(o1, w.out, w.name, w.b64ok)
          [] w.of = "saveProject" -> SaveSettled(o1, w.out)
          [] OTHER -> ImportResumed(o1, w.out)

\* No other operation is in progress.
Alone(r) == \A s \in Slots \ {r} : Free(s)

\* What a response can carry that the operation goes on to read: the array
\* for syncFromCloud, the projectName and the project data (by whether
\* base64ToUint8Array accepts them) of the record for its loop.
ListsAt(r, resp) ==
    IF /\ ops[r].pc = "listing"
       /\ TransportBody("getUserProjects", resp) = Return("result")
    THEN {l \in Lists :
            Len(l) <= IF Alone(r) THEN MaxProjects ELSE MaxOverlap}
    ELSE {<<>>}

RecordsAt(r, resp) ==
    IF /\ ops[r].pc = "fetching"
       /\ TransportBody("getProject", resp).kind = "return"
    THEN Names \X BOOLEAN
    ELSE {<<AnyName, TRUE>>}

InputsFit(r, resp, list, name, b64ok) ==
    /\ resp.body = "notIterable" => TransportOpOf(ops[r]) = "getUserProjects"
    /\ list \in ListsAt(r, resp)
    /\ <<name, b64ok>> \in RecordsAt(r, resp)

\* ------------------------------------------------------------ actions
\* db.ts, setApiBaseUrl: the host may call it at any time.
setApiBaseUrl(url) ==
    /\ NoneSettled
    /\ API_BASE_URL' = url
    /\ UNCHANGED <<headers, ops>>

\* syncFromCloud is called: it runs up to the fetch of getUserProjects.
CallSyncFromCloud(r) ==
    /\ NoneSettled
    /\ CanTake(r)
    /\ Apply(r, Send(Started("syncFromCloud"), "getUserProjects", 0,
                     "listing"))
    /\ UNCHANGED <<API_BASE_URL, headers>>

\* importCloudProject is called by the host.
CallImportCloudProject(r, name, b64ok) ==
    /\ NoneSettled
    /\ CanTake(r)
    /\ Apply(r, importDecode([Started("importCloudProject") EXCEPT
                                !.cloudData.projectName = name],
                             b64ok))
    /\ UNCHANGED <<API_BASE_URL, headers>>

\* handleCloudSaveWithData is called: it runs up to the fetch of saveProject.
CallHandleCloudSave(r) ==
    /\ NoneSettled
    /\ CanTake(r)
    /\ Apply(r, Send(Started("handleCloudSaveWithData"), "saveProject", 0,
                     "saving"))
    /\ UNCHANGED <<API_BASE_URL, headers>>

\* A db.ts call made by the host itself runs up to its fetch.
CallTransport(r, op) ==
    /\ NoneSettled
    /\ CanTake(r)
    /\ Apply(r, Send(Started(op), op, 0, "calling"))
    /\ UNCHANGED <<API_BASE_URL, headers>>

\* `await fetch(...)` is over and the db.ts call goes on to
\* `await response.json()`.
ResponseStatus(r, status) ==
    /\ NoneSettled
    /\ ops[r].pc \in RequestPcs
    /\ ops[r].status = "none"
    /\ status \in {"ok", "notok"}
    /\ ~SettlesAtStatus(TransportOpOf(ops[r]), status)
    /\ ops' = [ops EXCEPT ![r].status = status]
    /\ UNCHANGED <<API_BASE_URL, headers>>

\* `await fetch(...)` is over and the db.ts call throws without reading the
\* body: the request failed, or checkApiHealth got an unsuccessful status.
FetchSettles(r, resp) ==
    /\ NoneSettled
    /\ ops[r].pc \in RequestPcs
    /\ ops[r].status = "none"
    /\ SettlesAtStatus(TransportOpOf(ops[r]), resp.status)
    /\ Apply(r, TransportSettles(ops[r], resp, <<>>, AnyName, TRUE))
    /\ UNCHANGED <<API_BASE_URL, headers>>

\* `await response.json()` is over: the db.ts call ends.
ResponseBody(r, body, list, name, b64ok) ==
    /\ NoneSettled
    /\ ops[r].pc \in RequestPcs
    /\ ops[r].status # "none"
    /\ LET resp == [status |-> ops[r].status, body |-> body]
       IN  /\ resp \in Responses
           /\ InputsFit(r, resp, list, name, b64ok)
           /\ Apply(r, TransportSettles(ops[r], resp, list, name, b64ok))
    /\ UNCHANGED <<API_BASE_URL, headers>>

\* lzmaDecompressAsync settles; the importer runs up to
\* `await workspace.installAsync(installHeader, text)`, or ends.
DecompressDone(r, dec, doc) ==
    /\ NoneSettled
    /\ ops[r].pc = "decompressing"
    /\ dec # "ok" => doc = NoDoc
    /\ UNCHANGED <<API_BASE_URL, headers>>
    /\ LET o == ops[r]
           name == o.cloudData.projectName
           d == CASE dec = "lzmaFail" -> Throw(LzmaError)
                  [] dec = "badJson" -> Throw(JsonSyntaxError)
                  [] OTHER -> importDecide(name, doc, headers)
       IN  IF d.kind = "install"
           THEN Apply(r, [o EXCEPT
                            !.pc = "installing",
                            !.cloudData.format = Format(doc),
                            !.installs =
                                Append(@, [name |-> name,
                                           idx |-> o.idx,
                                           wasLocal |-> headers[name] > 0,
                                           state |-> "pending"])])
           ELSE Apply(r, ImportSettles(o, d, 0, FALSE, dec,
                                       IF dec = "ok" THEN Format(doc)
                                       ELSE "none",
                                       headers[name] > 0))

\* workspace.installAsync settles; the importer calls the host's refresh
\* callback, if there is one, and ends.
InstallDone(r, ok, refresh) ==
    /\ NoneSettled
    /\ ops[r].pc = "installing"
    /\ ~ok => refresh = "absent"
    /\ UNCHANGED API_BASE_URL
    /\ LET o == ops[r]
           name == o.cloudData.projectName
           last == Len(o.installs)
           o1 == IF last = 0 THEN o
                 ELSE [o EXCEPT !.installs[last].state =
                                    IF ok THEN "resolved" ELSE "rejected"]
       IN  /\ headers' = IF ok THEN installAsync(headers, name) ELSE headers
           /\ Apply(r, ImportSettles(o1,
                                     IF ok THEN refreshWorkspace(refresh)
                                     ELSE Throw(InstallError),
                                     1, ok, "ok", o.cloudData.format,
                                     last > 0 /\ o.installs[last].wasLocal))

\* syncFromCloud or handleCloudSaveWithData resumes from its await of an
\* async function that has ended, and runs to its next wait or to its end.
Resume(r) ==
    /\ NoneSettled
    /\ ops[r].pc = "resuming"
    /\ Apply(r, Resumed(ops[r]))
    /\ UNCHANGED <<API_BASE_URL, headers>>

\* The caller of a settled operation has its result; the slot is free.
Release(r) ==
    /\ ops[r].pc = "settled"
    /\ ops' = [ops EXCEPT ![r] = Blank]
    /\ UNCHANGED <<API_BASE_URL, headers>>

\* The slots whose operation is suspended at one of `pcs`.
At(pcs) == {r \in Slots : ops[r].pc \in pcs}

\* The slots whose operation has the status of its response and waits for
\* the body.
Answered == {r \in At(RequestPcs) : ops[r].status # "none"}

\* The documents that make a difference to the operation in slot r: all of
\* them where the record is kept, else one that is installed and one that
\* is not.
DocsAt(r) ==
    IF r = Observed THEN Docs
    ELSE {d \in Docs : /\ d.source = "map"
                       /\ d.text = "absent"
                       /\ d.cfg \in {"absent", "valid"}}

Next ==
    \/ \E url \in Urls : setApiBaseUrl(url)
    \/ \E r \in At({"free"}) : CallSyncFromCloud(r)
    \/ \E r \in At({"free"}), name \in Names, b64ok \in BOOLEAN :
            CallImportCloudProject(r, name, b64ok)
    \/ \E r \in At({"free"}) : CallHandleCloudSave(r)
    \/ \E r \in At({"free"}), op \in TransportOps : CallTransport(r, op)
    \/ \E r \in At(RequestPcs), status \in {"ok", "notok"} :
            ResponseStatus(r, status)
    \/ \E r \in At(RequestPcs), resp \in Responses : FetchSettles(r, resp)
    \/ \E r \in Answered, resp \in Responses :
            /\ resp.status = ops[r].status
            /\ \E list \in ListsAt(r, resp), rec \in RecordsAt(r, resp) :
                    ResponseBody(r, resp.body, list, rec[1], rec[2])
    \/ \E r \in At({"decompressing"}), dec \in Decompressions :
            \E doc \in DocsAt(r) : DecompressDone(r, dec, doc)
    \/ \E r \in At({"installing"}), ok \in BOOLEAN, refresh \in Refreshes :
            InstallDone(r, ok, refresh)
    \/ \E r \in At({"resuming"}) : Resume(r)
    \/ \E r \in At({"settled"}) : Release(r)

Spec == Init /\ [][Next]_vars

\* ------------------------------------------------------------ properties
\* The operation whose record is kept.
O == ops[Observed]

Settled == O.pc = "settled"
SyncRun == O.call = "syncFromCloud"
SyncDone == SyncRun /\ Settled
NotFailed == {i \in DOMAIN O.items : O.items[i].outcome # "failed"}
Outcomes == [i \in DOMAIN O.items |-> O.items[i].outcome]

\* Entries i and j carried the same projectName.
SameName(i, j) ==
    O.items[i].name # "none" /\ O.items[i].name = O.items[j].name

NotificationsFrom(f) ==
    {k \in DOMAIN O.notifications : O.notifications[k].from = f}

InstallsOf(nm) == {k \in DOMAIN O.installs : O.installs[k].name = nm}

\* The payload passes the format section of the importer: it decodes,
\* decompresses and parses, the file map the importer takes exists and its
\* configuration entry is a non-empty string.
FormatAccepted(imp) == imp.stage = "ok" /\ imp.format = "accepted"

\* C1: in a sync run over a non-empty list a per-project failure does not
\* abort the loop: every entry is attempted once, in list order, the run
\* ends without raising to its caller, and importedCount + skippedCount is
\* the number of entries that did not fail.
C1_LoopSurvivesFailures ==
    (SyncRun /\ O.cloudProjects # <<>>) =>
        /\ O.result.kind # "throw"
        /\ O.importedCount + O.skippedCount = Cardinality(NotFailed)
        /\ ~Settled =>
              /\ O.fetchOrder = UpTo(O.idx)
              /\ Len(O.items) = O.idx - 1
        /\ Settled =>
              /\ O.fetchOrder = UpTo(Len(O.cloudProjects))
              /\ Len(O.items) = Len(O.cloudProjects)
              /\ O.result.kind = "return"

\* C2 as stated: whenever the name is local, importCloudProject returns
\* false and requests no installation.
C2_CollisionAlwaysFalse ==
    (O.lastImport.result # "none" /\ O.lastImport.localAtCall) =>
        /\ O.lastImport.result = "false"
        /\ O.lastImport.installs = 0
        /\ O.installs = <<>>

\* C2 amended: when the name is local and the payload passes the format
\* checks, importCloudProject returns false and requests no installation;
\* and in a sync run no entry whose name was local is imported or
\* installed, however often it is listed.
C2_CollisionFalseWhenFormatOk ==
    /\ (O.lastImport.result # "none" /\ FormatAccepted(O.lastImport)
            /\ (O.lastImport.localAtCall \/ O.lastImport.localAtCheck)) =>
          /\ O.lastImport.result = "false"
          /\ O.lastImport.installs = 0
          /\ O.installs = <<>>
    /\ (O.lastImport.result # "none" /\ O.lastImport.localAtCall) =>
          /\ O.lastImport.result \in {"false", "throw"}
          /\ O.installs = <<>>
    /\ SyncRun =>
          \A i \in DOMAIN O.items :
              (O.items[i].name # "none" /\ O.headers0[O.items[i].name] > 0) =>
                  /\ O.items[i].outcome # "imported"
                  /\ InstallsOf(O.items[i].name) = {}

\* The same local name fetched twice: both imports returned false, nothing
\* was installed.
C2_Witness ==
    /\ SyncDone
    /\ Len(O.items) >= 2
    /\ SameName(1, 2)
    /\ O.headers0[O.items[1].name] > 0
    /\ O.items[1].outcome = "skipped" /\ O.items[2].outcome = "skipped"
    /\ O.installs = <<>>

\* C3: a decompressed payload that has neither a string `source` nor an
\* object `text`, or whose file map lacks the configuration file, makes
\* importCloudProject fail with InvalidFormat without an installation
\* request, whether or not the name is local.
C3_InvalidFormat ==
    (O.lastImport.result # "none" /\ O.lastImport.stage = "ok"
        /\ O.lastImport.format \in {"neitherShape", "lacksConfig"}) =>
        /\ O.lastImport.result = "throw"
        /\ O.lastImport.err.type = "InvalidFormat"
        /\ O.result = Throw(O.lastImport.err)
        /\ O.lastImport.installs = 0
        /\ O.installs = <<>>

\* C4: importCloudProject returns true exactly when its one installation
\* request succeeded, false exactly when it skipped on a name collision
\* without a request, and otherwise throws to its caller; it never issues
\* more than one installation request.
C4_ThreeOutcomes ==
    O.lastImport.result # "none" =>
        /\ O.lastImport.result \in {"true", "false", "throw"}
        /\ O.lastImport.installs = Len(O.installs)
        /\ O.lastImport.installs <= 1
        /\ O.lastImport.result = "true" <=>
              (O.lastImport.installs = 1 /\ O.lastImport.installOk
                  /\ O.installs[1].state = "resolved")
        /\ O.lastImport.result = "false" <=>
              (O.lastImport.localAtCheck /\ FormatAccepted(O.lastImport)
                  /\ O.lastImport.installs = 0)
        /\ O.lastImport.result = "throw" <=> O.result = Throw(O.lastImport.err)
        /\ O.lastImport.result # "throw" <=>
              O.result = Return(O.lastImport.result)

C6_ErrorMessage ==
    O.lastTransport.op # "none" =>
        /\ O.lastTransport.resp.status = "notok" =>
              /\ O.lastTransport.out.kind = "throw"
              /\ O.lastTransport.out.err.msg =
                    IF O.lastTransport.resp.body = "serverMsg"
                    THEN ServerMessage
                    ELSE DefaultMessage(O.lastTransport.op)
        /\ O.lastTransport.resp.status = "network" =>
              O.lastTransport.out = Throw(NetworkError)

\* C7: every run of syncFromCloud and of handleCloudSaveWithData shows the
\* user exactly one notification, and a sync shows none per project.
C7_OneNotification ==
    (Settled /\ O.call \in {"syncFromCloud", "handleCloudSaveWithData"}) =>
        /\ Len(O.notifications) = 1
        /\ NotificationsFrom("importCloudProject") = {}

\* C8: a request is sent to the base URL that is current when it is started
\* and keeps it; setApiBaseUrl touches no operation in progress, so the
\* requests of one run may go to different base URLs.
C8_BaseUrlReadPerRequest ==
    [][/\ \A q \in ops'[Observed].inflight \ O.inflight :
             q.url \in Urls =>
                (q.url = API_BASE_URL /\ q.url \in ops'[Observed].runUrls)
       /\ API_BASE_URL' # API_BASE_URL => ops' = ops]_vars

\* A sync run whose requests went to two base URLs, with a request in
\* flight that was sent to the URL set before the last setApiBaseUrl.
C8_Witness ==
    /\ SyncRun
    /\ O.pc = "fetching"
    /\ Cardinality(O.runUrls) = 2
    /\ \E q \in O.inflight : q.url \in Urls /\ q.url # API_BASE_URL

\* C9: the sync loop has at most one async call in flight; the fetch or
\* import in flight belongs to entry idx, every earlier entry is finished
\* and fetches were started in list order; an empty list starts none.
C9_OneAtATime ==
    SyncRun =>
        /\ Cardinality(O.inflight) <= 1
        /\ \A q \in O.inflight :
              q.kind \in {"getProject", "importCloudProject"} =>
                  /\ q.idx = O.idx
                  /\ Len(O.items) = O.idx - 1
                  /\ O.fetchOrder = UpTo(O.idx)
        /\ \A k \in DOMAIN O.installs :
              O.installs[k].state = "pending" =>
                  /\ k = Len(O.installs)
                  /\ O.pc = "installing"
                  /\ O.inflight = {ImportFrame(O.idx)}
        /\ O.pc \in {"fetching", "decompressing", "installing"} =>
              Cardinality(O.inflight) = 1
        /\ O.cloudProjects = <<>> =>
              /\ O.fetchOrder = <<>> /\ O.items = <<>> /\ O.installs = <<>>
              /\ \A q \in O.inflight : q.kind = "getUserProjects"

\* The import of the second entry waits for its installation; the first
\* entry is finished and the third not started.
C9_Witness ==
    /\ SyncRun
    /\ Len(O.cloudProjects) = 3
    /\ O.pc = "installing"
    /\ O.idx = 2
    /\ Len(O.items) = 1
    /\ O.fetchOrder = <<1, 2>>

LocalPrecedence ==
    /\ \A nm \in Names :
          O.headers0[nm] > 0 =>
              /\ headers[nm] >= O.headers0[nm]
              /\ InstallsOf(nm) = {}
    /\ \A k \in DOMAIN O.installs : ~O.installs[k].wasLocal
    /\ \A nm \in Names :
          Cardinality({k \in InstallsOf(nm) :
                          O.installs[k].state = "resolved"}) <= 1
    /\ \A i \in DOMAIN O.items :
          O.items[i].outcome = "imported" =>
              /\ headers[O.items[i].name] > 0
              /\ \A j \in 1..(i - 1) :
                    SameName(i, j) => O.items[j].outcome = "failed"

\* C10: local precedence over a sync run, and of several cloud projects of
\* one name at most one is installed, the first in list order whose import
\* succeeds, while the later ones are counted as skipped.
C10_LaterOnesSkipped ==
    SyncRun =>
        /\ LocalPrecedence
        /\ \A k \in DOMAIN O.installs :
              (O.installs[k].state = "resolved"
                    /\ O.installs[k].idx \in DOMAIN O.items) =>
                  O.items[O.installs[k].idx].outcome = "imported"
        /\ \A i \in DOMAIN O.items : \A j \in DOMAIN O.items :
              (i < j /\ SameName(i, j) /\ O.items[i].outcome = "imported") =>
                  O.items[j].outcome = "skipped"

====
